---- MODULE Spec2Model ----
(***************************************************************************)
(* Model of inventory_system.py: a process-wide stock ledger (an insertion *)
(* ordered dict from item name to float quantity) with validated add and   *)
(* remove, lookup, low-stock report, and JSON save/load.                   *)
(*                                                                         *)
(* Strings are sequences of characters.  A Python value is a record        *)
(* [t, n]: its type tag and, for numbers, its value.  Quantities are       *)
(* finite numbers, written as integers (a float 7.0 is 7).  The log lines  *)
(* (logger.info, the optional logs list of add_item) are written and never *)
(* read by any operation; they are left out.                               *)
(***************************************************************************)
EXTENDS Integers, Sequences, FiniteSets, TLC

VARIABLES stock_data, disk, last

vars == <<stock_data, disk, last>>

\* ---------------------------------------------------------------- bounds
MaxQty == 2

\* ------------------------------------------------------ program constants
DefaultThreshold == 5

\* ----------------------------------------------------------- input sets
Apple == <<"a">>
AppleUpper == <<"A">>
Blank == <<" ", " ">>
Empty == <<>>

Names == {Apple, AppleUpper}

PyInt(n) == [t |-> "int", n |-> n]
PyFloat(n) == [t |-> "float", n |-> n]
PyBool(b) == [t |-> "bool", n |-> IF b THEN 1 ELSE 0]
PyStr == [t |-> "str", n |-> 0]
PyNone == [t |-> "none", n |-> 0]

StrItem(s) == [t |-> "str", s |-> s]
NonStrItem == [t |-> "int", s |-> Empty]

ItemInputs == {StrItem(s) : s \in Names \cup {Blank, Empty}} \cup {NonStrItem}

QtyInputs ==
    {PyInt(-1), PyInt(0), PyInt(1), PyFloat(2), PyBool(TRUE), PyStr}

ThresholdInputs ==
    {PyInt(-1), PyInt(0), PyInt(1), PyInt(DefaultThreshold), PyStr}

\* ------------------------------------------------------ python built-ins
Whitespace == {" "}

RECURSIVE LStrip(_)
LStrip(s) ==
    IF s # <<>> /\ Head(s) \in Whitespace THEN LStrip(Tail(s)) ELSE s

RECURSIVE RStrip(_)
RStrip(s) ==
    IF s # <<>> /\ s[Len(s)] \in Whitespace
    THEN RStrip(SubSeq(s, 1, Len(s) - 1))
    ELSE s

Strip(s) == RStrip(LStrip(s))

IsStr(x) == x.t = "str"

IsNumeric(v) == v.t \in {"int", "float", "bool"}

Float(v) == v.n

\* ------------------------------------------------- dict (insertion order)
Keys(d) == {d[i].k : i \in 1 .. Len(d)}

Has(d, k) == k \in Keys(d)

Get(d, k, default) ==
    IF Has(d, k) THEN d[CHOOSE i \in 1 .. Len(d) : d[i].k = k].v ELSE default

Put(d, k, v) ==
    IF Has(d, k)
    THEN [i \in 1 .. Len(d) |-> IF d[i].k = k THEN [k |-> k, v |-> v] ELSE d[i]]
    ELSE Append(d, [k |-> k, v |-> v])

KeepOthers(d, k) == SelectSeq(d, LAMBDA e : e.k # k)

Del(d, k) == KeepOthers(d, k)

Result(err, msg, d) == [err |-> err, msg |-> msg, stock |-> d]

\* ------------------------------------------------------------- add_item
\* variants of add_item with a slip in them, used to test the properties
Lower(s) == [i \in 1 .. Len(s) |-> IF s[i] = "A" THEN "a" ELSE s[i]]

add_item_casefold(d, item, qty) ==
    IF ~IsStr(item) \/ Strip(item.s) = <<>> THEN Result("ValueError", "item", d)
    ELSE IF ~IsNumeric(qty) THEN Result("ValueError", "qty", d)
    ELSE IF qty.n < 0 THEN Result("ValueError", "negative", d)
    ELSE Result("none", "",
                Put(d, Lower(item.s), Get(d, Lower(item.s), 0) + Float(qty)))

add_item_overwrite(d, item, qty) ==
    IF ~IsStr(item) \/ Strip(item.s) = <<>> THEN Result("ValueError", "item", d)
    ELSE IF ~IsNumeric(qty) THEN Result("ValueError", "qty", d)
    ELSE IF qty.n < 0 THEN Result("ValueError", "negative", d)
    ELSE Result("none", "", Put(d, item.s, Float(qty)))

add_item(d, item, qty) ==
    IF ~IsStr(item) \/ Strip(item.s) = <<>> THEN Result("ValueError", "item", d)
    ELSE IF ~IsNumeric(qty) THEN Result("ValueError", "qty", d)
    ELSE IF qty.n < 0 THEN Result("ValueError", "negative", d)
    ELSE Result("none", "", Put(d, item.s, Get(d, item.s, 0) + Float(qty)))

\* ---------------------------------------------------------- remove_item
\* variants of remove_item with a slip in them, used to test the properties
remove_item_keep_zero(d, item, qty) ==
    IF ~IsStr(item) \/ Strip(item.s) = <<>> THEN Result("ValueError", "item", d)
    ELSE IF ~IsNumeric(qty) \/ qty.n <= 0 THEN Result("ValueError", "qty", d)
    ELSE IF ~Has(d, item.s) THEN Result("KeyError", "not found", d)
    ELSE LET new_qty == Get(d, item.s, 0) - Float(qty) IN
         IF new_qty < 0 THEN Result("ValueError", "insufficient", d)
         ELSE Result("none", "", Put(d, item.s, new_qty))

remove_item_lookup_first(d, item, qty) ==
    IF ~IsStr(item) \/ ~Has(d, item.s) THEN Result("KeyError", "not found", d)
    ELSE IF Strip(item.s) = <<>> THEN Result("ValueError", "item", d)
    ELSE IF ~IsNumeric(qty) \/ qty.n <= 0 THEN Result("ValueError", "qty", d)
    ELSE LET new_qty == Get(d, item.s, 0) - Float(qty) IN
         IF new_qty < 0 THEN Result("ValueError", "insufficient", d)
         ELSE IF new_qty = 0 THEN Result("none", "deleted", Del(d, item.s))
         ELSE Result("none", "", Put(d, item.s, new_qty))

remove_item_clamp(d, item, qty) ==
    IF ~IsStr(item) \/ Strip(item.s) = <<>> THEN Result("ValueError", "item", d)
    ELSE IF ~IsNumeric(qty) \/ qty.n <= 0 THEN Result("ValueError", "qty", d)
    ELSE IF ~Has(d, item.s) THEN Result("KeyError", "not found", d)
    ELSE LET new_qty == Get(d, item.s, 0) - Float(qty) IN
         IF new_qty < 0 THEN Result("ValueError", "insufficient", Del(d, item.s))
         ELSE IF new_qty = 0 THEN Result("none", "deleted", Del(d, item.s))
         ELSE Result("none", "", Put(d, item.s, new_qty))

remove_item(d, item, qty) ==
    IF ~IsStr(item) \/ Strip(item.s) = <<>> THEN Result("ValueError", "item", d)
    ELSE IF ~IsNumeric(qty) \/ qty.n <= 0 THEN Result("ValueError", "qty", d)
    ELSE IF ~Has(d, item.s) THEN Result("KeyError", "not found", d)
    ELSE LET new_qty == Get(d, item.s, 0) - Float(qty) IN
         IF new_qty < 0 THEN Result("ValueError", "insufficient", d)
         ELSE IF new_qty = 0 THEN Result("none", "deleted", Del(d, item.s))
         ELSE Result("none", "", Put(d, item.s, new_qty))

\* -------------------------------------------------------------- get_qty
get_qty(d, item) ==
    IF IsStr(item) /\ Has(d, item.s)
    THEN [err |-> "none", val |-> Get(d, item.s, 0)]
    ELSE [err |-> "KeyError", val |-> 0]

\* ------------------------------------------------------ check_low_items
LowNames(d, limit) ==
    LET low == SelectSeq(d, LAMBDA e : e.v < limit)
    IN  [i \in 1 .. Len(low) |-> low[i].k]

check_low_items(d, threshold) ==
    IF ~IsNumeric(threshold) \/ threshold.n < 0
    THEN [err |-> "ValueError", ret |-> <<>>]
    ELSE [err |-> "none", ret |-> LowNames(d, threshold.n)]

\* ------------------------------------------------------------ JSON text
\* A file is [kind, pairs]: missing, garbage (not JSON), a JSON array, a
\* JSON string, or a JSON object whose members are pairs [k, v] in file
\* order, v a JSON value [j, n].
JsonNumber(lit, n) == [j |-> lit, n |-> n]
JsonString == [j |-> "string", n |-> 0]
JsonTrue == [j |-> "true", n |-> 0]
JsonNull == [j |-> "null", n |-> 0]

File(kind, pairs) == [kind |-> kind, pairs |-> pairs]

Missing == File("missing", <<>>)
Garbage == File("garbage", <<>>)

\* a variant of json_dump that leaves out the entries with quantity 0
json_dump_skip_zero(d) ==
    LET nz == SelectSeq(d, LAMBDA e : e.v # 0)
    IN  File("object",
             [i \in 1 .. Len(nz) |->
                [k |-> nz[i].k, v |-> JsonNumber("float", nz[i].v)]])

\* json.dump(stock_data): every quantity is a float, written as "n.0"
json_dump(d) ==
    File("object",
         [i \in 1 .. Len(d) |->
            [k |-> d[i].k, v |-> JsonNumber("float", d[i].v)]])

\* json.load: a JSON value becomes a Python value
Decode(v) ==
    CASE v.j = "int" -> PyInt(v.n)
      [] v.j = "float" -> PyFloat(v.n)
      [] v.j = "true" -> PyBool(TRUE)
      [] v.j = "string" -> PyStr
      [] OTHER -> PyNone

\* a JSON object becomes a dict; a repeated member name keeps its first
\* position and its last value
RECURSIVE DecodeObject(_, _)
DecodeObject(pairs, acc) ==
    IF pairs = <<>> THEN acc
    ELSE DecodeObject(Tail(pairs), Put(acc, Head(pairs).k, Decode(Head(pairs).v)))

json_load(f) ==
    CASE f.kind = "object" -> [t |-> "dict", items |-> DecodeObject(f.pairs, <<>>)]
      [] f.kind = "array" -> [t |-> "list", items |-> <<>>]
      [] OTHER -> [t |-> "str", items |-> <<>>]

\* ------------------------------------------------------------ load_data
\* the for loop of load_data over data.items(), acc being stock_data
RECURSIVE LoadLoop(_, _)
LoadLoop(items, acc) ==
    IF items = <<>> THEN Result("none", "", acc)
    ELSE IF ~IsNumeric(Head(items).v) THEN Result("ValueError", "entry", acc)
    ELSE LoadLoop(Tail(items), Put(acc, Head(items).k, Float(Head(items).v)))

load_data(d, f) ==
    IF f.kind = "missing" THEN Result("FileNotFoundError", "", d)
    ELSE IF f.kind = "garbage" THEN Result("JSONDecodeError", "", d)
    ELSE LET data == json_load(f) IN
         IF data.t # "dict" THEN Result("ValueError", "object", d)
         ELSE LoadLoop(data.items, <<>>)

\* ------------------------------------------------------------ save_data
\* open(file, "w") may fail (file untouched); the write may fail after the
\* file was truncated (file left incomplete)
save_data(d, f, outcome) ==
    CASE outcome = "ok" -> [err |-> "none", disk |-> json_dump(d)]
      [] outcome = "open" -> [err |-> "OSError", disk |-> f]
      [] OTHER -> [err |-> "OSError", disk |-> Garbage]

SaveOutcomes == {"ok", "open", "write"}

\* ---------------------------------------------- files found on the disk
JsonVals ==
    {JsonNumber("int", n) : n \in {-1, 0, 1}} \cup {JsonString, JsonTrue}

FilePairs == {[k |-> k, v |-> v] : k \in Names, v \in JsonVals}

SeqsUpTo(S, n) == UNION {[1 .. m -> S] : m \in 0 .. n}

OtherFiles ==
    {File("object", p) : p \in SeqsUpTo(FilePairs, Cardinality(Names))}
        \cup {Missing, Garbage, File("array", <<>>), File("string", <<>>)}

\* one such file, with a zero and a negative quantity in it
LegacyFile ==
    File("object", <<[k |-> AppleUpper, v |-> JsonNumber("int", 0)],
                     [k |-> Apple, v |-> JsonNumber("int", -1)]>>)

\* -------------------------------------------------------------- actions
\* last: the call made last and how it ended (the exception raised, if
\* any); key and n are its item and quantity arguments
Last(op, err, msg, item, qty, path) ==
    [op |-> op, err |-> err, msg |-> msg,
     key |-> IF IsStr(item) THEN item.s ELSE Empty,
     n |-> IF err = "none" /\ IsNumeric(qty) THEN qty.n ELSE 0,
     path |-> path]

NoItem == StrItem(Empty)

InRange(d) == \A i \in 1 .. Len(d) : d[i].v <= MaxQty

Init ==
    /\ stock_data = <<>>
    /\ disk = Missing
    /\ last = Last("init", "none", "", NoItem, PyNone, "")

AddItem ==
    \E item \in ItemInputs, qty \in QtyInputs :
        LET r == add_item(stock_data, item, qty) IN
        /\ InRange(r.stock)
        /\ stock_data' = r.stock
        /\ last' = Last("add", r.err, r.msg, item, qty, "")
        /\ UNCHANGED disk

RemoveItem ==
    \E item \in ItemInputs, qty \in QtyInputs :
        LET r == remove_item(stock_data, item, qty) IN
        /\ stock_data' = r.stock
        /\ last' = Last("remove", r.err, r.msg, item, qty, "")
        /\ UNCHANGED disk

GetQty ==
    \E item \in ItemInputs :
        LET r == get_qty(stock_data, item) IN
        /\ last' = Last("get", r.err, "", item, PyNone, "")
        /\ UNCHANGED <<stock_data, disk>>

CheckLowItems ==
    \E threshold \in ThresholdInputs :
        LET r == check_low_items(stock_data, threshold) IN
        /\ last' = Last("check", r.err, "", NoItem, PyNone, "")
        /\ UNCHANGED <<stock_data, disk>>

\* load_data() of the file save_data() writes
LoadSaved ==
    LET r == load_data(stock_data, disk)
        fresh == last.op = "save" /\ last.err = "none"
    IN  /\ stock_data' = r.stock
        /\ last' = Last("load", r.err, r.msg, NoItem, PyNone,
                        IF fresh THEN "just saved" ELSE "saved")
        /\ UNCHANGED disk

\* load_data(file) of a file something else wrote
LoadFrom(files) ==
    \E f \in files :
        LET r == load_data(stock_data, f) IN
        /\ stock_data' = r.stock
        /\ last' = Last("load", r.err, r.msg, NoItem, PyNone, "other")
        /\ UNCHANGED disk

LoadOther == LoadFrom(OtherFiles)

LoadLegacy == LoadFrom({LegacyFile})

SaveData ==
    \E outcome \in SaveOutcomes :
        LET r == save_data(stock_data, disk, outcome) IN
        /\ disk' = r.disk
        /\ last' = Last("save", r.err, "", NoItem, PyNone, "")
        /\ UNCHANGED stock_data

PrintData ==
    /\ last' = Last("print", "none", "", NoItem, PyNone, "")
    /\ UNCHANGED <<stock_data, disk>>

\* the ledger, fed by files that other programs wrote
Next ==
    \/ AddItem
    \/ RemoveItem
    \/ GetQty
    \/ CheckLowItems
    \/ LoadOther
    \/ PrintData

Spec == Init /\ [][Next]_vars

\* the ledger with its own file: what it loads is what it saved
NextPersist ==
    \/ AddItem
    \/ RemoveItem
    \/ GetQty
    \/ CheckLowItems
    \/ SaveData
    \/ LoadSaved
    \/ LoadLegacy
    \/ PrintData

SpecPersist == Init /\ [][NextPersist]_vars

\* ============================================================ properties
Range(s) == {s[i] : i \in 1 .. Len(s)}

Mapping(d) == {<<d[i].k, d[i].v>> : i \in 1 .. Len(d)}

Entry(d, k) == {e \in Mapping(d) : e[1] = k}

GoodItems == {StrItem(s) : s \in Names}

PositiveQtys == {q \in QtyInputs : q.t \in {"int", "float", "bool"} /\ q.n > 0}

\* C1: every key present in the stock mapping has a strictly positive
\* quantity; no entry with quantity exactly 0 is ever stored.
C1_AllPositive == \A i \in 1 .. Len(stock_data) : stock_data[i].v > 0

\* C2: a load_data that fails because the content is not a JSON object, or
\* is an object with a non-numeric value, leaves the stock mapping as it was
\* before the call.
C2_FailedLoadLeavesStock ==
    [][(last'.op = "load" /\ last'.err = "ValueError")
          => Mapping(stock_data') = Mapping(stock_data)]_vars

\* C3: every add_item or remove_item that fails leaves the stock mapping
\* exactly as it was: no key is created, deleted or changed.
C3_FailedCallLeavesStock ==
    [][(last'.op \in {"add", "remove"} /\ last'.err # "none")
          => stock_data' = stock_data]_vars

C3_Witness ==
    /\ last.op = "remove"
    /\ last.err = "KeyError"
    /\ last.key \in Names
    /\ ~Has(stock_data, last.key)
    /\ stock_data # <<>>

\* C4: a successful save_data immediately followed by load_data of the same
\* file succeeds and leaves the mapping with the same keys and the same
\* values as before the save.
C4_RoundTrip ==
    [][(last'.op = "load" /\ last'.path = "just saved")
          => (last'.err = "none" /\ Mapping(stock_data') = Mapping(stock_data))]_vars

C4_Witness ==
    /\ last.op = "load"
    /\ last.path = "just saved"
    /\ last.err = "none"
    /\ Mapping(stock_data) = {<<Apple, -1>>, <<AppleUpper, 0>>}

\* C5: check_low_items(0) returns the empty sequence in every reachable
\* state.
C5_LowZeroEmpty == check_low_items(stock_data, PyInt(0)).ret = <<>>

\* C6: after a successful add_item(item, qty), get_qty(item) returns the
\* quantity item had before the call (0 if it was absent) plus qty; adding
\* 0 to an absent item creates it with quantity 0.
C6_AddThenGet ==
    [][(last'.op = "add" /\ last'.err = "none")
          => LET g == get_qty(stock_data', StrItem(last'.key))
             IN  /\ g.err = "none"
                 /\ g.val = Get(stock_data, last'.key, 0) + last'.n]_vars

C6_Witness ==
    /\ last.op = "add"
    /\ last.err = "none"
    /\ last.n = 0
    /\ stock_data = <<[k |-> last.key, v |-> 0]>>

\* C7: remove_item reports the first error that matches, in this order:
\* bad arguments (even if the item is also absent), then item not found,
\* then insufficient stock; if none matches it succeeds.
C7_RemoveErrorOrder ==
    \A item \in ItemInputs, qty \in QtyInputs :
        LET r == remove_item(stock_data, item, qty)
            bad == item \notin GoodItems \/ qty \notin PositiveQtys
        IN  IF bad THEN r.err = "ValueError" /\ r.msg \in {"item", "qty"}
            ELSE IF item.s \notin Keys(stock_data) THEN r.err = "KeyError"
            ELSE IF qty.n > Get(stock_data, item.s, 0)
                 THEN r.err = "ValueError" /\ r.msg = "insufficient"
            ELSE r.err = "none"

C7_Witness ==
    /\ last.op = "remove"
    /\ last.err = "ValueError"
    /\ last.msg = "qty"
    /\ last.key \in Names
    /\ ~Has(stock_data, last.key)
    /\ stock_data # <<>>

\* C8: a successful remove_item(item, qty) leaves item with its previous
\* quantity minus qty when that is positive and deletes the key when qty
\* equals the quantity; a deleted item is unknown to get_qty and to
\* check_low_items, and only add_item or load_data brings a key back.
C8_RemoveEffect ==
    [][/\ (last'.op = "remove" /\ last'.err = "none")
            => LET k == last'.key
                   left == Get(stock_data, k, 0) - last'.n
               IN  IF left > 0
                   THEN Entry(stock_data', k) = {<<k, left>>}
                   ELSE /\ left = 0
                        /\ ~Has(stock_data', k)
                        /\ get_qty(stock_data', StrItem(k)).err = "KeyError"
                        /\ \A th \in ThresholdInputs :
                              k \notin Range(check_low_items(stock_data', th).ret)
       /\ \A k \in Names :
            (~Has(stock_data, k) /\ Has(stock_data', k))
                => last'.op \in {"add", "load"}]_vars

C8_Witness ==
    /\ last.op = "remove"
    /\ last.err = "none"
    /\ last.msg = "deleted"
    /\ ~Has(stock_data, last.key)
    /\ stock_data # <<>>

\* C9: no item in the stock mapping has a negative quantity.
C9_NoNegative == \A i \in 1 .. Len(stock_data) : stock_data[i].v >= 0

\* C10: add_item and remove_item change at most the entry of the item they
\* were called with (names are case-sensitive); get_qty, check_low_items,
\* save_data and print_data change no entry.
C10_Frame ==
    [][/\ last'.op \in {"add", "remove"}
            => \A k \in Names \ {last'.key} :
                  Entry(stock_data', k) = Entry(stock_data, k)
       /\ last'.op \in {"get", "check", "save", "print"}
            => stock_data' = stock_data]_vars

C10_Witness ==
    /\ last.op = "add"
    /\ last.err = "none"
    /\ last.key = AppleUpper
    /\ last.n = 1
    /\ Mapping(stock_data) = {<<Apple, MaxQty>>, <<AppleUpper, 1>>}
====
